---- MODULE Spec2Model ----
(***************************************************************************)
(* DotMatrix: the SM83 execution engine (core/src/cpu.rs), its memory bus  *)
(* (core/src/bus.rs) and the single-step harness that stages machine       *)
(* states (core/tests/single_step_tests.rs).                               *)
(*                                                                         *)
(* A machine is a record m with the fields of Sm83 and the Bus, the        *)
(* outcome of the run (status, diag) and history fields that record what   *)
(* the calls did.  Every Rust function is an operator from machine to      *)
(* machine; a panic sets status and every later statement is skipped.      *)
(***************************************************************************)
EXTENDS Integers, Sequences, FiniteSets, TLC

VARIABLES
    registers,      \* Sm83.registers: the raw u64 as 8 byte lanes, lane 1 = bits 0..7
    pc,             \* Sm83.pc
    sp,             \* Sm83.sp
    ir,             \* Sm83.ir: an Opcode variant
    mcode_queue,    \* Sm83.mcode_queue, front first
    bus,            \* Bus: 256 pages of 256 bytes
    status,         \* "ok", or the panic that ended the run
    diag,           \* the operands of the Illegal panic message, <<>> before it
    overflow_checks,\* the build profile: TRUE = debug (overflow panics), FALSE = release
    table,          \* which decode table the build was generated with
    origin,         \* history: for each queued micro-op, the opcode whose fetch pushed it
    popped,         \* history: the origin of the micro-op popped last
    executed,       \* history: the micro-ops executed so far, with IR at that moment
    fetched,        \* history: the opcodes fetched so far, in fetch order
    history,        \* history: the calls made so far, each with the queue length and
                    \*          PC it was entered with
    bus_op,         \* history: the last operation on the bus alone, with the bus before it
    reg_op,         \* history: the constructor of the register file, or the last setter
                    \*          called on it alone, with the register file before it
    cartridge,      \* DotMatrix.cartridge: Option<Rc<Cartridge>>
    generator       \* opcodes/build.rs: the opcode records it is given and what it did

vars == <<registers, pc, sp, ir, mcode_queue, bus, status, diag, overflow_checks,
          table, origin, popped, executed, fetched, history, bus_op, reg_op,
          cartridge, generator>>

\* ------------------------------------------------------------------ bounds

\* Calls of fetch / exec_m_cycle / exec_instruction made in one run.
MaxCalls == 3

\* ------------------------------------------------------- program constants

ADDRESS_SPACE == 65536
PAGE_SIZE == 256
PAGE_COUNT == ADDRESS_SPACE \div PAGE_SIZE
AFTER_BOOT_PC == 256
AFTER_BOOT_SP == 65534
\* u16::MAX
U16_MAX == ADDRESS_SPACE - 1

Byte == 0 .. 255

\* ------------------------------------------------------------------- Bus

\* u16::to_le_bytes: <<low byte, high byte>>
to_le_bytes(x) == << x % 256, x \div 256 >>

\* u16::from_le_bytes
from_le_bytes(lo, hi) == lo + 256 * hi

\* Page::new_ram: Ram([0xFF; PAGE_SIZE])
new_ram == [i \in 0 .. PAGE_SIZE - 1 |-> 255]

\* Page::read
Page_read(page, addr) == page[addr]

\* Page::write
Page_write(page, addr, value) == [page EXCEPT ![addr] = value]

\* Bus::flat / Bus::new_dmg: [RAM; PAGE_COUNT]
Bus_flat == [p \in 0 .. PAGE_COUNT - 1 |-> new_ram]

Bus_new_dmg == [p \in 0 .. PAGE_COUNT - 1 |-> new_ram]

\* Bus::read: let [index, page] = addr.to_le_bytes(); self.0[page].read(index)
\* (le[1] is the index within the page, le[2] the page)
Bus_read(b, addr) ==
    LET le == to_le_bytes(addr)
    IN Page_read(b[le[2]], le[1])

\* Bus::write with the address bytes taken in the other order
Bus_write_swapped(b, addr, value) ==
    LET le == to_le_bytes(addr)
    IN [b EXCEPT ![le[1]] = Page_write(@, le[2], value)]

\* Bus::write
Bus_write(b, addr, value) ==
    LET le == to_le_bytes(addr)
    IN [b EXCEPT ![le[2]] = Page_write(@, le[1], value)]

\* ------------------------------------------------------------- registers

\* Sm83Registers(u64) as byte lanes: lane k holds bits 8(k-1) .. 8k-1.
\*   0xHH_LL_DD_EE_BB_CC_AA_FF  ->  << FF, AA, CC, BB, EE, DD, LL, HH >>
LANE_F == 1
LANE_A == 2
LANE_C == 3
LANE_B == 4
LANE_E == 5
LANE_D == 6
LANE_L == 7
LANE_H == 8

\* initial_dmg with the A and F bytes of the literal exchanged
initial_dmg_fa == << 1, 176, 19, 0, 216, 0, 77, 1 >>

\* Sm83Registers::initial_dmg: Self(0x01_4D_00_D8_00_13_01_B0)
initial_dmg == << 176, 1, 19, 0, 216, 0, 77, 1 >>

\* x & 0xF0 on a byte
and_F0(x) == (x \div 16) * 16

\* f() without its get_fn: the raw bits 0..7
reg_f_unmasked(r) == r[LANE_F]

\* the getters of the bitfield
reg_f(r) == and_F0(r[LANE_F])
reg_a(r) == r[LANE_A]
reg_c(r) == r[LANE_C]
reg_b(r) == r[LANE_B]
reg_e(r) == r[LANE_E]
reg_d(r) == r[LANE_D]
reg_l(r) == r[LANE_L]
reg_h(r) == r[LANE_H]

\* the 8-bit setters of the bitfield: each replaces exactly its own bit range
set_f(r, v) == [r EXCEPT ![LANE_F] = v]
set_a(r, v) == [r EXCEPT ![LANE_A] = v]
set_c(r, v) == [r EXCEPT ![LANE_C] = v]
set_b(r, v) == [r EXCEPT ![LANE_B] = v]
set_e(r, v) == [r EXCEPT ![LANE_E] = v]
set_d(r, v) == [r EXCEPT ![LANE_D] = v]
set_l(r, v) == [r EXCEPT ![LANE_L] = v]
set_h(r, v) == [r EXCEPT ![LANE_H] = v]

\* bit n of byte x, and x with bit n replaced
bit(x, n) == (x \div 2^n) % 2 = 1
with_bit(x, n, v) == x - (IF bit(x, n) THEN 2^n ELSE 0) + (IF v THEN 2^n ELSE 0)

\* the flags: single bits 4..7 of the raw value, inside lane F
c_flag(r) == bit(r[LANE_F], 4)
h_flag(r) == bit(r[LANE_F], 5)
n_flag(r) == bit(r[LANE_F], 6)
z_flag(r) == bit(r[LANE_F], 7)
set_c_flag(r, v) == [r EXCEPT ![LANE_F] = with_bit(@, 4, v)]
set_h_flag(r, v) == [r EXCEPT ![LANE_F] = with_bit(@, 5, v)]
set_n_flag(r, v) == [r EXCEPT ![LANE_F] = with_bit(@, 6, v)]
set_z_flag(r, v) == [r EXCEPT ![LANE_F] = with_bit(@, 7, v)]

\* x & 0xFFF0 on a 16-bit word
and_FFF0(x) == (x \div 16) * 16

\* the 16-bit getters: two neighbouring lanes, the lower lane the low byte
reg_af(r) == and_FFF0(r[LANE_F] + 256 * r[LANE_A])
reg_bc(r) == r[LANE_C] + 256 * r[LANE_B]
reg_de(r) == r[LANE_E] + 256 * r[LANE_D]
reg_hl(r) == r[LANE_L] + 256 * r[LANE_H]

\* set_bc with the halves exchanged
set_bc_halves_swapped(r, w) == [r EXCEPT ![LANE_C] = w \div 256, ![LANE_B] = w % 256]

\* the 16-bit setters: each replaces exactly its own 16 bits
set_af(r, w) == [r EXCEPT ![LANE_F] = w % 256, ![LANE_A] = w \div 256]
set_bc(r, w) == [r EXCEPT ![LANE_C] = w % 256, ![LANE_B] = w \div 256]
set_de(r, w) == [r EXCEPT ![LANE_E] = w % 256, ![LANE_D] = w \div 256]
set_hl(r, w) == [r EXCEPT ![LANE_L] = w % 256, ![LANE_H] = w \div 256]

\* Sm83Registers::initial_mgb: Self(0x01_4D_00_D8_00_13_FF_B0)
initial_mgb == << 176, 255, 19, 0, 216, 0, 77, 1 >>

\* Sm83Registers::initial_sgb: Self(0xC0_60_00_00_00_14_01_00)
initial_sgb == << 0, 1, 20, 0, 0, 0, 96, 192 >>

\* Sm83Registers::initial_sgb2: initial_sgb() with set_a(0xFF)
initial_sgb2 == set_a(initial_sgb, 255)

\* Sm83Registers::initial_cgb: Self(0x00_7C_00_08_00_00_11_80)
initial_cgb == << 128, 17, 0, 0, 8, 0, 124, 0 >>

\* Sm83Registers::initial_agb: Self(0x00_7C_00_08_01_00_11_00)
initial_agb == << 0, 17, 0, 1, 8, 0, 124, 0 >>

\* Sm83Registers::initial_ags: Self(0x00_7C_00_08_01_00_11_00)
initial_ags == << 0, 17, 0, 1, 8, 0, 124, 0 >>

\* ---------------------------------------------------------------- opcodes

\* opcodes.json: 256 records, one per byte value, in byte order.  The id of
\* byte 0x00 is NOP (cpu.rs names Opcode::NOP); the other ids stand for the
\* file's names.
opcodes_json ==
    [i \in 1 .. 256 |->
        [opcode |-> i - 1,
         id     |-> IF i = 1 THEN << "NOP", 0 >> ELSE << "OP", i - 1 >>]]

\* Opcode::NOP
Opcode_NOP == << "NOP", 0 >>

\* impl From<u8> for Opcode (build_from): match opcode { #opcode => Self::#id, ... }
\* the first arm whose pattern is the byte
Opcode_from(byte) ==
    LET arm == CHOOSE i \in 1 .. 256 :
                   /\ opcodes_json[i].opcode = byte
                   /\ \A j \in 1 .. i - 1 : opcodes_json[j].opcode # byte
    IN opcodes_json[arm].id

\* `self.ir as u8` (build_enum): the discriminant  #id = #opcode
Opcode_as_u8(op) ==
    LET rec == CHOOSE i \in 1 .. 256 : opcodes_json[i].id = op
    IN opcodes_json[rec].opcode

\* MCode
MCode == { "Nop", "Illegal" }

\* Opcode::mcode of the present scope: NOP is one no-op, every other opcode
\* decodes to the illegal marker.
mcode_current(op) ==
    IF op = Opcode_NOP THEN << "Nop" >> ELSE << "Illegal" >>

\* Opcode::mcode of a table that has grown multi-cycle instructions: 0x01
\* takes two m-cycles and 0x02 three.
mcode_grown(op) ==
    CASE Opcode_as_u8(op) = 0 -> << "Nop" >>
      [] Opcode_as_u8(op) = 1 -> << "Nop", "Nop" >>
      [] Opcode_as_u8(op) = 2 -> << "Nop", "Nop", "Nop" >>
      [] OTHER -> << "Illegal" >>

Tables == { "current", "grown" }

\* Opcode::mcode under the decode table of this build
Opcode_mcode(op) ==
    IF table = "current" THEN mcode_current(op) ELSE mcode_grown(op)

\* --------------------------------------------------------------- machine

\* The machine the operators below transform: the state variables as a record.
Machine ==
    [registers |-> registers, pc |-> pc, sp |-> sp, ir |-> ir,
     mcode_queue |-> mcode_queue, bus |-> bus, status |-> status, diag |-> diag,
     origin |-> origin, popped |-> popped, executed |-> executed,
     fetched |-> fetched]

\* `x + 1` on a u16: wraps in a build without overflow checks, panics with them.
u16_inc_overflows(x) == x + 1 > U16_MAX

u16_inc_wrapped(x) == (x + 1) % ADDRESS_SPACE

\* self.pc += 1
pc_add_assign(m) ==
    IF u16_inc_overflows(m.pc) /\ overflow_checks
    THEN [m EXCEPT !.status = "overflow"]
    ELSE [m EXCEPT !.pc = u16_inc_wrapped(m.pc)]

\* the micro-ops pushed at the front of the queue instead of the back
push_front_all(m, op) ==
    LET seq == Opcode_mcode(op)
    IN [m EXCEPT !.mcode_queue = seq \o @,
                 !.origin = [i \in 1 .. Len(seq) |-> op] \o @]

\* self.ir.mcode().iter().for_each(|&mcode| self.mcode_queue.push_back(mcode))
push_back_all(m, op) ==
    LET seq == Opcode_mcode(op)
    IN [m EXCEPT !.mcode_queue = @ \o seq,
                 !.origin = @ \o [i \in 1 .. Len(seq) |-> op]]

\* Sm83::fetch
fetch(m) ==
    IF m.status # "ok" THEN m
    ELSE LET op == Opcode_from(Bus_read(m.bus, m.pc))
             m1 == [m EXCEPT !.ir = op, !.fetched = Append(@, op)]
         IN pc_add_assign(push_back_all(m1, m1.ir))

\* exec_mcode with a Nop arm that clears the accumulator
exec_mcode_nop_clobbers(m, mcode) ==
    LET m1 == [m EXCEPT !.executed =
                   Append(@, [mcode |-> mcode, ir |-> m.ir, origin |-> m.popped])]
    IN CASE mcode = "Nop" -> [m1 EXCEPT !.registers = set_a(@, 0)]
         [] mcode = "Illegal" ->
                [m1 EXCEPT !.status = "illegal",
                           !.diag = << Opcode_as_u8(m.ir), m.ir >>]

\* exec_mcode with an Illegal arm that does nothing
exec_mcode_illegal_ignored(m, mcode) ==
    LET m1 == [m EXCEPT !.executed =
                   Append(@, [mcode |-> mcode, ir |-> m.ir, origin |-> m.popped])]
    IN CASE mcode = "Nop" -> m1
         [] mcode = "Illegal" -> m1

\* exec_mcode with a Nop that queues a further micro-op
exec_mcode_nop_requeues(m, mcode) ==
    LET m1 == [m EXCEPT !.executed =
                   Append(@, [mcode |-> mcode, ir |-> m.ir, origin |-> m.popped])]
    IN CASE mcode = "Nop" ->
                [m1 EXCEPT !.mcode_queue = Append(@, "Illegal"),
                           !.origin = Append(@, m.popped)]
         [] mcode = "Illegal" ->
                [m1 EXCEPT !.status = "illegal",
                           !.diag = << Opcode_as_u8(m.ir), m.ir >>]

\* Sm83::exec_mcode
exec_mcode(m, mcode) ==
    LET m1 == [m EXCEPT !.executed =
                   Append(@, [mcode |-> mcode, ir |-> m.ir, origin |-> m.popped])]
    IN CASE mcode = "Nop" -> m1
         [] mcode = "Illegal" ->
                [m1 EXCEPT !.status = "illegal",
                           !.diag = << Opcode_as_u8(m.ir), m.ir >>]

\* the queue popped at its back
pop_back(m) ==
    [m EXCEPT !.mcode_queue = SubSeq(@, 1, Len(@) - 1),
              !.origin = SubSeq(@, 1, Len(@) - 1),
              !.popped = m.origin[Len(m.origin)]]

\* self.mcode_queue.pop_front(), on a non-empty queue
pop_front(m) ==
    [m EXCEPT !.mcode_queue = Tail(@), !.origin = Tail(@), !.popped = Head(m.origin)]

\* the test of exec_m_cycle turned around: fetch only when more than one is queued
needs_fetch_when_long(m) == Len(m.mcode_queue) > 1

\* exec_m_cycle's test: self.mcode_queue.len() <= 1
needs_fetch(m) == Len(m.mcode_queue) <= 1

\* Sm83::exec_m_cycle
exec_m_cycle(m) ==
    LET m1 == IF needs_fetch(m) THEN fetch(m) ELSE m
    IN IF m1.status # "ok" THEN m1
       ELSE IF m1.mcode_queue = << >>
            THEN [m1 EXCEPT !.status = "underrun"]
            ELSE exec_mcode(pop_front(m1), Head(m1.mcode_queue))

\* while let Some(mcode) = self.mcode_queue.pop_front() { self.exec_mcode(mcode, bus) }
RECURSIVE drain(_)
drain(m) ==
    IF m.status # "ok" \/ m.mcode_queue = << >> THEN m
    ELSE drain(exec_mcode(pop_front(m), Head(m.mcode_queue)))

\* Sm83::exec_instruction (DotMatrix::exec_instruction passes its own bus)
exec_instruction(m) ==
    LET m1 == IF m.mcode_queue = << >> THEN fetch(m) ELSE m
    IN drain(m1)

\* #[derive(PartialEq)] on Sm83Registers(u64): == compares the raw values
Sm83Registers_eq(r1, r2) == r1 = r2

\* #[derive(PartialEq)] on Sm83: == compares the fields one by one
Sm83_eq(m1, m2) ==
    /\ Sm83Registers_eq(m1.registers, m2.registers)
    /\ m1.pc = m2.pc
    /\ m1.sp = m2.sp
    /\ m1.ir = m2.ir
    /\ m1.mcode_queue = m2.mcode_queue

\* ------------------------------------------------------------ construction

\* DotMatrix::new_with_flat_bus / DotMatrix::new_dmg with Sm83::new_dmg
new_with_flat_bus ==
    [registers |-> initial_dmg, pc |-> AFTER_BOOT_PC, sp |-> AFTER_BOOT_SP,
     ir |-> Opcode_NOP, mcode_queue |-> << >>, bus |-> Bus_flat,
     status |-> "ok", diag |-> << >>,
     origin |-> << >>, popped |-> Opcode_NOP, executed |-> << >>, fetched |-> << >>]

new_dmg == [new_with_flat_bus EXCEPT !.bus = Bus_new_dmg]

\* for (address, value) in state.ram { dmg.bus.write(address, value) }
RECURSIVE write_all(_, _)
write_all(b, ram) ==
    IF ram = << >> THEN b
    ELSE write_all(Bus_write(b, Head(ram)[1], Head(ram)[2]), Tail(ram))

\* impl From<State> for DotMatrix
from_state(state) ==
    LET r == set_l(set_h(set_f(set_e(set_d(set_c(set_b(set_a(
                 new_with_flat_bus.registers,
                 state.a), state.b), state.c), state.d), state.e), state.f),
                 state.h), state.l)
    IN [new_with_flat_bus EXCEPT
           !.registers = r, !.pc = state.pc, !.sp = state.sp,
           !.bus = write_all(@, state.ram)]

\* State::new: what the harness compares
State_new(m, ram_addrs) ==
    [pc |-> m.pc, sp |-> m.sp,
     a |-> reg_a(m.registers), b |-> reg_b(m.registers), c |-> reg_c(m.registers),
     d |-> reg_d(m.registers), e |-> reg_e(m.registers), f |-> reg_f(m.registers),
     h |-> reg_h(m.registers), l |-> reg_l(m.registers),
     ram |-> [i \in 1 .. Len(ram_addrs) |->
                 << ram_addrs[i], Bus_read(m.bus, ram_addrs[i]) >>]]

\* ---------------------------------------------------------- staged inputs

\* Program counters the harness stages: 0x0000, 0x01FF (the next byte is in
\* the next page), 0xFFFE (the second fetch is at the last address) and
\* 0xFFFF (the next byte is at 0x0000).
StagePCs == { 0, 511, 65534, 65535 }

\* Opcode bytes staged at PC, PC+1, PC+2: 0x00 NOP, 0x01, 0x02, 0xD3.
Programs ==
    { << 0, 0, 0 >>, << 0, 211, 0 >>, << 211, 0, 0 >>, << 1, 0, 2 >>, << 2, 1, 0 >> }

\* Register and SP values staged: one with F's low nibble clear, one with it set.
StageRegs ==
    { [a |-> 205, f |-> 80, b |-> 137, c |-> 171, d |-> 69, e |-> 103,
       h |-> 1, l |-> 35, sp |-> 43009],
      [a |-> 0, f |-> 183, b |-> 255, c |-> 1, d |-> 2, e |-> 3,
       h |-> 4, l |-> 5, sp |-> 0] }

\* The State records of the staged test cases.
States ==
    { [pc |-> p, sp |-> r.sp, a |-> r.a, b |-> r.b, c |-> r.c, d |-> r.d,
       e |-> r.e, f |-> r.f, h |-> r.h, l |-> r.l,
       ram |-> [i \in 1 .. Len(prog) |->
                   << (p + i - 1) % ADDRESS_SPACE, prog[i] >>]]
      : p \in StagePCs, prog \in Programs, r \in StageRegs }

\* ------------------------------------------------------------ transitions

\* The state variables take the fields of machine m.
Becomes(m) ==
    /\ registers' = m.registers
    /\ pc' = m.pc
    /\ sp' = m.sp
    /\ ir' = m.ir
    /\ mcode_queue' = m.mcode_queue
    /\ bus' = m.bus
    /\ status' = m.status
    /\ diag' = m.diag
    /\ origin' = m.origin
    /\ popped' = m.popped
    /\ executed' = m.executed
    /\ fetched' = m.fetched

\* DotMatrix.cartridge before load
None == [some |-> FALSE, rom |-> << >>]

\* The generator has not been given anything.
Idle == [input |-> << >>, outcome |-> "none", file |-> << >>]

\* The register file as constructor ctor made it, no setter called yet.
Constructed(ctor, r) == [op |-> ctor, value |-> 0, before |-> r, calls |-> 0]

Starts(m) ==
    /\ registers = m.registers
    /\ pc = m.pc
    /\ sp = m.sp
    /\ ir = m.ir
    /\ mcode_queue = m.mcode_queue
    /\ bus = m.bus
    /\ status = m.status
    /\ diag = m.diag
    /\ origin = m.origin
    /\ popped = m.popped
    /\ executed = m.executed
    /\ fetched = m.fetched
    /\ history = << >>
    /\ bus_op = [op |-> "none", addr |-> 0, value |-> 0, before |-> m.bus]
    /\ cartridge = None

\* A machine fresh from DotMatrix::new_dmg, or staged by the harness; the build
\* is with or without overflow checks, with one of the decode tables.
Init ==
    /\ overflow_checks \in BOOLEAN
    /\ table \in Tables
    /\ reg_op = Constructed("initial_dmg", initial_dmg)
    /\ generator = Idle
    /\ \/ Starts(new_dmg)
       \/ \E state \in States : Starts(from_state(state))

\* A panic ends the run; a running machine takes up to MaxCalls calls.
Running == status = "ok" /\ Len(history) < MaxCalls

Called(op) ==
    /\ history' = Append(history, [op |-> op, n |-> Len(mcode_queue), pc |-> pc])
    /\ UNCHANGED << overflow_checks, table, bus_op, reg_op, cartridge, generator >>

\* The last call made, "new" before the first.
last ==
    IF history = << >> THEN [op |-> "new", n |-> 0, pc |-> pc]
    ELSE history[Len(history)]

Fetch ==
    /\ Running
    /\ Becomes(fetch(Machine))
    /\ Called("fetch")

ExecMCycle ==
    /\ Running
    /\ Becomes(exec_m_cycle(Machine))
    /\ Called("exec_m_cycle")

ExecInstruction ==
    /\ Running
    /\ Becomes(exec_instruction(Machine))
    /\ Called("exec_instruction")

Next == Fetch \/ ExecMCycle \/ ExecInstruction

Spec == Init /\ [][Next]_vars

\* ------------------------------------------------------- the bus on its own

\* Addresses written and read: 0x00FF and 0x0100 (neighbours in different
\* pages) and 0xFFFF (the last address).
BusAddrs == { 255, 256, 65535 }

\* Bytes written.
BusValues == { 0, 165 }

\* The bus of a new machine, before any call on it.
BusInit ==
    /\ overflow_checks \in BOOLEAN
    /\ table = "current"
    /\ reg_op = Constructed("initial_dmg", initial_dmg)
    /\ generator = Idle
    /\ Starts(new_dmg)

\* dmg.bus.write(addr, value)
BusWrite ==
    \E addr \in BusAddrs, value \in BusValues :
        /\ bus' = Bus_write(bus, addr, value)
        /\ bus_op' = [op |-> "write", addr |-> addr, value |-> value, before |-> bus]
        /\ UNCHANGED << registers, pc, sp, ir, mcode_queue, status, diag,
                        overflow_checks, table, origin, popped, executed, fetched,
                        history, reg_op, cartridge, generator >>

\* dmg.bus.read(addr): takes the bus by shared reference
BusRead ==
    \E addr \in BusAddrs :
        /\ bus_op' = [op |-> "read", addr |-> addr, value |-> Bus_read(bus, addr),
                      before |-> bus]
        /\ UNCHANGED << bus, registers, pc, sp, ir, mcode_queue, status, diag,
                        overflow_checks, table, origin, popped, executed, fetched,
                        history, reg_op, cartridge, generator >>

BusNext == BusWrite \/ BusRead

BusSpec == BusInit /\ [][BusNext]_vars

\* ------------------------------------------------------- 16-bit bus access

\* Bus::write16 with the bytes of the value in the other order
Bus_write16_high_first(b, addr, value) ==
    LET le == to_le_bytes(value)
        b1 == Bus_write(b, addr, le[2])
    IN IF u16_inc_overflows(addr) /\ overflow_checks
       THEN [bus |-> b1, status |-> "overflow"]
       ELSE [bus |-> Bus_write(b1, u16_inc_wrapped(addr), le[1]), status |-> "ok"]

\* Bus::write16: let [low, high] = value.to_le_bytes();
\*               self.write(addr, low); self.write(addr + 1, high);
\* `addr + 1` is evaluated after the first write; with overflow checks it
\* panics at addr = 0xFFFF, without them it wraps to 0x0000.
Bus_write16(b, addr, value) ==
    LET le == to_le_bytes(value)
        b1 == Bus_write(b, addr, le[1])
    IN IF u16_inc_overflows(addr) /\ overflow_checks
       THEN [bus |-> b1, status |-> "overflow"]
       ELSE [bus |-> Bus_write(b1, u16_inc_wrapped(addr), le[2]), status |-> "ok"]

\* Bus::read16: u16::from_le_bytes([self.read(addr), self.read(addr + 1)])
\* (a panic returns nothing: value is 0 then and status tells)
Bus_read16(b, addr) ==
    IF u16_inc_overflows(addr) /\ overflow_checks
    THEN [value |-> 0, status |-> "overflow"]
    ELSE [value |-> from_le_bytes(Bus_read(b, addr),
                                  Bus_read(b, u16_inc_wrapped(addr))),
          status |-> "ok"]

\* Addresses of the 16-bit accesses: 0x00FF (the high byte is in the next
\* page), 0xFFFE (the last address below 0xFFFF) and 0xFFFF.
Bus16Addrs == { 255, 65534, 65535 }

\* Words written: 0x1234 and 0xA5FF.
Bus16Values == { 4660, 42495 }

\* dmg.bus.write16(addr, value)
Bus16Write ==
    \E addr \in Bus16Addrs, value \in Bus16Values :
        LET res == Bus_write16(bus, addr, value)
        IN /\ status = "ok"
           /\ bus' = res.bus
           /\ status' = res.status
           /\ bus_op' = [op |-> "write16", addr |-> addr, value |-> value,
                         before |-> bus]
           /\ UNCHANGED << registers, pc, sp, ir, mcode_queue, diag,
                           overflow_checks, table, origin, popped, executed,
                           fetched, history, reg_op, cartridge, generator >>

\* dmg.bus.read16(addr): takes the bus by shared reference
Bus16Read ==
    \E addr \in Bus16Addrs :
        LET res == Bus_read16(bus, addr)
        IN /\ status = "ok"
           /\ status' = res.status
           /\ bus_op' = [op |-> "read16", addr |-> addr, value |-> res.value,
                         before |-> bus]
           /\ UNCHANGED << bus, registers, pc, sp, ir, mcode_queue, diag,
                           overflow_checks, table, origin, popped, executed,
                           fetched, history, reg_op, cartridge, generator >>

Bus16Next == Bus16Write \/ Bus16Read

Bus16Spec == BusInit /\ [][Bus16Next]_vars

\* --------------------------------------------- the register file on its own

\* Setter calls made on a register file in one run.
MaxSets == 2

\* The constructors of Sm83Registers, by name.
Revisions ==
    [initial_dmg |-> initial_dmg, initial_mgb |-> initial_mgb,
     initial_sgb |-> initial_sgb, initial_sgb2 |-> initial_sgb2,
     initial_cgb |-> initial_cgb, initial_agb |-> initial_agb,
     initial_ags |-> initial_ags]

\* The byte written by the 8-bit setters, 0x5F, and the word written by the
\* 16-bit setters, 0xA5C3: both with a low nibble that is not 0.
Reg8Values == { 95 }
Reg16Values == { 42435 }

Setters8 == { "set_a", "set_f", "set_b", "set_c", "set_d", "set_e", "set_h", "set_l" }
Setters16 == { "set_af", "set_bc", "set_de", "set_hl" }
SettersFlag == { "set_c_flag", "set_h_flag", "set_n_flag", "set_z_flag" }

\* registers.set_x(v), by the name of the setter
call_setter(name, r, v) ==
    CASE name = "set_a" -> set_a(r, v)
      [] name = "set_f" -> set_f(r, v)
      [] name = "set_b" -> set_b(r, v)
      [] name = "set_c" -> set_c(r, v)
      [] name = "set_d" -> set_d(r, v)
      [] name = "set_e" -> set_e(r, v)
      [] name = "set_h" -> set_h(r, v)
      [] name = "set_l" -> set_l(r, v)
      [] name = "set_af" -> set_af(r, v)
      [] name = "set_bc" -> set_bc(r, v)
      [] name = "set_de" -> set_de(r, v)
      [] name = "set_hl" -> set_hl(r, v)
      [] name = "set_c_flag" -> set_c_flag(r, v)
      [] name = "set_h_flag" -> set_h_flag(r, v)
      [] name = "set_n_flag" -> set_n_flag(r, v)
      [] name = "set_z_flag" -> set_z_flag(r, v)

\* An Sm83 made by Sm83::new_dmg; its public registers field is then replaced
\* by the register file of one of the other revisions, or left as it is.
\* (The accessors do no arithmetic that could overflow: one build profile.)
RegInit ==
    /\ overflow_checks = FALSE
    /\ table = "current"
    /\ generator = Idle
    /\ \E ctor \in DOMAIN Revisions :
          /\ Starts([new_dmg EXCEPT !.registers = Revisions[ctor]])
          /\ reg_op = Constructed(ctor, Revisions[ctor])

SetterCalled(name, v) ==
    /\ reg_op.calls < MaxSets
    /\ registers' = call_setter(name, registers, v)
    /\ reg_op' = [op |-> name, value |-> v, before |-> registers,
                  calls |-> reg_op.calls + 1]
    /\ UNCHANGED << pc, sp, ir, mcode_queue, bus, status, diag, overflow_checks,
                    table, origin, popped, executed, fetched, history, bus_op,
                    cartridge, generator >>

\* cpu.registers.set_a(v) ... set_l(v), set_f(v)
Set8 == \E name \in Setters8, v \in Reg8Values : SetterCalled(name, v)

\* cpu.registers.set_af(w), set_bc(w), set_de(w), set_hl(w)
Set16 == \E name \in Setters16, w \in Reg16Values : SetterCalled(name, w)

\* cpu.registers.set_c_flag(v), set_h_flag(v), set_n_flag(v), set_z_flag(v)
SetFlag == \E name \in SettersFlag, v \in BOOLEAN : SetterCalled(name, v)

RegNext == Set8 \/ Set16 \/ SetFlag

RegSpec == RegInit /\ [][RegNext]_vars

\* ------------------------------------------------------- running a ROM

\* Cartridge::new
Cartridge_new(data) == [rom |-> data]

\* Cartridge::read: self.rom[addr as usize] (Rust indexes from 0)
Cartridge_read(c, addr) == c.rom[addr + 1]

\* DotMatrix::load: self.cartridge = Some(Rc::new(Cartridge::new(rom)))
\* and nothing else: neither the bus nor the CPU is touched.
load(rom) == [some |-> TRUE, rom |-> Cartridge_new(rom).rom]

\* let self_loop_addr: u16 = 0xFE_18
SELF_LOOP_ADDR == 65048

\* The code of the ROMs: two opcode bytes out of 0x00, 0x01, 0x02, 0xD3.
RomCode == [1 .. 2 -> { 0, 1, 2, 211 }]

\* The ROMs loaded: 0x100 bytes of 0x00 up to the entry point 0x0100, then
\* the code, then the final instruction 0x18 0xFE, the word 0xFE18.
Roms ==
    { [i \in 1 .. AFTER_BOOT_PC + Len(code) + 2 |->
          IF i <= AFTER_BOOT_PC THEN 0
          ELSE IF i <= AFTER_BOOT_PC + Len(code) THEN code[i - AFTER_BOOT_PC]
          ELSE to_le_bytes(SELF_LOOP_ADDR)[i - AFTER_BOOT_PC - Len(code)]]
      : code \in RomCode }

\* let mut dmg = DotMatrix::new_dmg()
RomInit ==
    /\ overflow_checks \in BOOLEAN
    /\ table \in Tables
    /\ reg_op = Constructed("initial_dmg", initial_dmg)
    /\ generator = Idle
    /\ Starts(new_dmg)

\* dmg.load(rom.as_slice().into())
Load ==
    \E rom \in Roms :
        /\ ~cartridge.some
        /\ cartridge' = load(rom)
        /\ UNCHANGED << registers, pc, sp, ir, mcode_queue, bus, status, diag,
                        overflow_checks, table, origin, popped, executed, fetched,
                        history, bus_op, reg_op, generator >>

\* The loop of the ROM test was left: read16(pc) returned the self-loop word.
SelfLoopRead ==
    /\ status = "ok"
    /\ bus_op.op = "read16"
    /\ bus_op.value = SELF_LOOP_ADDR

\* One turn of the loop of the ROM test:
\*   dmg.exec_instruction(); if self_loop_addr == dmg.bus.read16(dmg.cpu.pc) { break }
RomTurn ==
    LET m == exec_instruction(Machine)
        res == Bus_read16(m.bus, m.pc)
    IN /\ Running
       /\ cartridge.some
       /\ ~SelfLoopRead
       /\ Becomes(IF m.status = "ok" THEN [m EXCEPT !.status = res.status] ELSE m)
       /\ bus_op' = IF m.status = "ok"
                    THEN [op |-> "read16", addr |-> m.pc, value |-> res.value,
                          before |-> m.bus]
                    ELSE bus_op
       /\ history' = Append(history, [op |-> "exec_instruction",
                                      n |-> Len(mcode_queue), pc |-> pc])
       /\ UNCHANGED << overflow_checks, table, reg_op, cartridge, generator >>

RomNext == Load \/ RomTurn

RomSpec == RomInit /\ [][RomNext]_vars

\* ------------------------------------------------------ decoding every byte

\* Program counters the opcode byte is staged at: 0x0100 and 0xFFFF.
DecodePCs == { AFTER_BOOT_PC, U16_MAX }

\* A flat-bus machine with the public fields cpu.pc and one byte of the bus
\* assigned as the harness assigns them: any of the 256 bytes at PC.
DecodeInit ==
    /\ overflow_checks \in BOOLEAN
    /\ table \in Tables
    /\ reg_op = Constructed("initial_dmg", initial_dmg)
    /\ generator = Idle
    /\ \E p \in DecodePCs, byte \in Byte :
          Starts([new_with_flat_bus EXCEPT !.pc = p, !.bus = Bus_write(@, p, byte)])

DecodeNext == Fetch

DecodeSpec == DecodeInit /\ [][DecodeNext]_vars

\* ------------------------------------------------- the build-time generator

\* build_enum: the variants of the generated enum, `#id = #opcode` per record
build_enum(opcodes) ==
    [i \in 1 .. Len(opcodes) |-> [id |-> opcodes[i].id, discriminant |-> opcodes[i].opcode]]

\* build_from: the arms of the generated match, `#opcode => Self::#id` per record
build_from(opcodes) ==
    [i \in 1 .. Len(opcodes) |-> [pattern |-> opcodes[i].opcode, id |-> opcodes[i].id]]

\* build_display: `Self::#id => #mnemonic` per record, with
\* op.mnemonic.first().unwrap(): a record without a mnemonic panics
build_display(opcodes) ==
    IF \E i \in 1 .. Len(opcodes) : opcodes[i].mnemonic = << >>
    THEN [status |-> "panic", arms |-> << >>]
    ELSE [status |-> "ok",
          arms |-> [i \in 1 .. Len(opcodes) |->
                       [id |-> opcodes[i].id, mnemonic |-> Head(opcodes[i].mnemonic)]]]

\* build_opcodes_file: the three items, or the panic of build_display
build_opcodes_file(opcodes) ==
    LET display == build_display(opcodes)
    IN IF display.status # "ok" THEN [status |-> "panic", items |-> << >>]
       ELSE [status |-> "ok",
             items |-> << build_enum(opcodes), build_from(opcodes), display.arms >>]

\* main without its assert_eq!
main_unchecked(opcode_json) ==
    LET syn_file == build_opcodes_file(opcode_json)
    IN IF syn_file.status # "ok"
       THEN [input |-> opcode_json, outcome |-> "failed", file |-> << >>]
       ELSE [input |-> opcode_json, outcome |-> "written", file |-> syn_file.items]

\* main, from the parsed records on:
\*   assert_eq!(256, opcode_json.len(), "Must have exactly 256 opcodes");
\*   let syn_file = build_opcodes_file(&opcode_json)?;
\*   let mut file = File::create("./src/opcodes.rs")?; write!(file, ...)?;
main(opcode_json) ==
    IF Len(opcode_json) # 256
    THEN [input |-> opcode_json, outcome |-> "failed", file |-> << >>]
    ELSE LET syn_file == build_opcodes_file(opcode_json)
         IN IF syn_file.status # "ok"
            THEN [input |-> opcode_json, outcome |-> "failed", file |-> << >>]
            ELSE [input |-> opcode_json, outcome |-> "written", file |-> syn_file.items]

\* The 256 records of a well-formed file, each with one mnemonic and length 1.
GenBase ==
    [i \in 1 .. 256 |->
        [opcode |-> opcodes_json[i].opcode, id |-> opcodes_json[i].id,
         mnemonic |-> << opcodes_json[i].id >>, length |-> 1]]

\* Records whose byte value is replaced, the byte values they are given, and
\* the numbers of records of the files given to the generator.
GenPositions == { 1, 2, 128, 255, 256 }
GenBytes == { 0, 1, 127, 254, 255 }
GenLengths == { 0, 255, 256, 257 }

\* records with the byte value of record p replaced by v (a duplicate unless
\* v is the byte record p had)
WithByte(records, p, v) == [records EXCEPT ![p].opcode = v]

\* the first n of the records; past their end, a further record for byte 0
Resized(records, n) ==
    [i \in 1 .. n |->
        IF i <= Len(records) THEN records[i]
        ELSE [opcode |-> 0, id |-> << "EXTRA", i >>,
              mnemonic |-> << << "EXTRA", i >> >>, length |-> 1]]

\* The files given to the generator: every length with every replaced byte,
\* and files of 256 unique bytes in which one record has no mnemonic.
GenInputs ==
    { Resized(WithByte(GenBase, p, v), n) :
          p \in GenPositions, v \in GenBytes, n \in GenLengths }
    \cup { [GenBase EXCEPT ![p].mnemonic = << >>] : p \in GenPositions }

\* opcodes.json as parsed, before the build script runs
GenInit ==
    /\ overflow_checks = FALSE
    /\ table = "current"
    /\ reg_op = Constructed("initial_dmg", initial_dmg)
    /\ Starts(new_dmg)
    /\ \E input \in GenInputs :
          generator = [input |-> input, outcome |-> "none", file |-> << >>]

\* cargo runs build.rs
Build ==
    /\ generator.outcome = "none"
    /\ generator' = main(generator.input)
    /\ UNCHANGED << registers, pc, sp, ir, mcode_queue, bus, status, diag,
                    overflow_checks, table, origin, popped, executed, fetched,
                    history, bus_op, reg_op, cartridge >>

GenNext == Build

GenSpec == GenInit /\ [][GenNext]_vars

TypeOK ==
    /\ pc \in 0 .. U16_MAX
    /\ sp \in 0 .. U16_MAX
    /\ status \in { "ok", "illegal", "overflow", "underrun" }
    /\ Len(origin) = Len(mcode_queue)
    /\ \A i \in 1 .. Len(mcode_queue) : mcode_queue[i] \in MCode

\* ---------------------------------------------------------------- claims

\* This step is a call of op.
Step(op) ==
    /\ Len(history') = Len(history) + 1
    /\ history'[Len(history')].op = op

\* The micro-ops this step executed, oldest first.
ExecutedNow ==
    [i \in 1 .. Len(executed') - Len(executed) |-> executed'[Len(executed) + i].mcode]

\* The fetches this step performed.
FetchesNow == Len(fetched') - Len(fetched)

\* What C1 says of a step that is a call of exec_m_cycle.
C1_Body ==
    LET n == Len(mcode_queue)
        k == Len(Opcode_mcode(ir'))
        front == IF n >= 1 THEN Head(mcode_queue) ELSE Head(Opcode_mcode(ir'))
    IN /\ FetchesNow = (IF n <= 1 THEN 1 ELSE 0)
       /\ ExecutedNow = << front >>
       /\ status' = "ok" =>
             Len(mcode_queue') = (IF n <= 1 THEN n + k - 1 ELSE n - 1)

\* C1: every call of exec_m_cycle fetches if and only if the queue length on
\* entry is <= 1, then pops one micro-op from the front of the queue and
\* executes exactly that one; entered with n queued and fetching k, it returns
\* with n+k-1 queued when n <= 1 and n-1 when n >= 2.
C1_ExecMCycleOneCycle == [][ Step("exec_m_cycle") => C1_Body ]_vars

\* C1 holds of every call that the overflow check of `self.pc += 1` does not abort.
C1_UnlessOverflowPanic ==
    [][ (Step("exec_m_cycle") /\ status' # "overflow") => C1_Body ]_vars

\* C2: queue underrun never occurs: with decode tables of non-empty sequences,
\* whatever fetch, exec_m_cycle and exec_instruction calls were made, the queue
\* is non-empty when exec_m_cycle pops.
C2_NoUnderrun == status # "underrun"

\* exec_m_cycle was entered with an empty queue, fetched, popped and returned.
C2_Witness ==
    /\ last.op = "exec_m_cycle"
    /\ last.n = 0
    /\ status = "ok"
    /\ Len(executed) >= 1

\* C3: fetch with PC < 0xFFFF sets IR to the opcode decoded from the byte at the
\* old PC, appends that opcode's micro-ops in table order behind the micro-ops
\* already queued, increments PC by 1 and leaves registers, SP and the bus alone.
C3_Fetch ==
    [][ (Step("fetch") /\ pc < U16_MAX) =>
          /\ status' = "ok"
          /\ ir' = Opcode_from(Bus_read(bus, pc))
          /\ Opcode_as_u8(ir') = Bus_read(bus, pc)
          /\ mcode_queue' = mcode_queue \o Opcode_mcode(ir')
          /\ pc' = pc + 1
          /\ registers' = registers
          /\ sp' = sp
          /\ bus' = bus
      ]_vars

\* fetch was called with micro-ops already queued and appended more.
C3_Witness ==
    /\ last.op = "fetch"
    /\ last.n >= 1
    /\ last.pc < U16_MAX
    /\ status = "ok"
    /\ Len(mcode_queue) > last.n
    /\ pc = last.pc + 1

\* C4: PC wraps on overflow: a fetch (direct, or inside exec_m_cycle or
\* exec_instruction) completes without a fatal error, also at PC = 0xFFFF, and
\* leaves PC = (old PC + 1) mod 2^16.
C4_PcWraps ==
    [][ FetchesNow = 1 =>
          /\ status' # "overflow"
          /\ pc' = (pc + 1) % ADDRESS_SPACE
      ]_vars

\* The prefix of a micro-op sequence that runs: up to and including its first Illegal.
RECURSIVE UpToIllegal(_)
UpToIllegal(seq) ==
    IF seq = << >> THEN << >>
    ELSE IF Head(seq) = "Illegal" THEN << "Illegal" >>
    ELSE << Head(seq) >> \o UpToIllegal(Tail(seq))

\* What C5 says of a step that is a call of exec_instruction.
C5_Body ==
    /\ mcode_queue = << >> =>
          /\ FetchesNow = 1
          /\ ir' = Opcode_from(Bus_read(bus, pc))
          /\ pc' = (pc + 1) % ADDRESS_SPACE
          /\ ExecutedNow = UpToIllegal(Opcode_mcode(ir'))
    /\ mcode_queue # << >> =>
          /\ FetchesNow = 0
          /\ pc' = pc
    /\ (\A i \in 1 .. Len(ExecutedNow) : ExecutedNow[i] # "Illegal") =>
          /\ status' = "ok"
          /\ mcode_queue' = << >>

\* C5: exec_instruction entered with an empty queue performs exactly one fetch
\* (IR becomes the opcode at the old PC, PC goes up by one) and executes exactly
\* that opcode's micro-ops; entered with a non-empty queue it performs no fetch
\* and leaves PC alone; either way, unless it executes an Illegal micro-op, it
\* returns with the queue empty.
C5_ExecInstruction == [][ Step("exec_instruction") => C5_Body ]_vars

\* C5 holds of every call that the overflow check of `self.pc += 1` does not abort.
C5_UnlessOverflowPanic ==
    [][ (Step("exec_instruction") /\ status' # "overflow") => C5_Body ]_vars

\* The addresses of a State's ram list (test_opcode's `addrs`).
RamAddrs(state) == [i \in 1 .. Len(state.ram) |-> state.ram[i][1]]

\* C6: single-step NOP conformance: from a state staged on a flat bus with any
\* PC < 0xFFFF, byte 0x00 at PC, an empty queue and F's low nibble 0, one
\* exec_instruction leaves PC = old PC + 1, and SP, the eight registers (as the
\* harness reads them back) and every bus byte as staged.
C6_NopSingleStep ==
    [][ \A state \in States :
          ( /\ Step("exec_instruction")
            /\ Machine = from_state(state)
            /\ state.pc < U16_MAX
            /\ Bus_read(bus, state.pc) = 0
            /\ state.f % 16 = 0 ) =>
            /\ status' = "ok"
            /\ State_new(Machine', RamAddrs(state)) = [state EXCEPT !.pc = @ + 1]
            /\ bus' = bus
      ]_vars

\* One exec_instruction ran a staged NOP to its end.
C6_Witness ==
    /\ Len(history) = 1
    /\ last.op = "exec_instruction"
    /\ last.n = 0
    /\ last.pc < U16_MAX
    /\ Bus_read(bus, last.pc) = 0
    /\ registers[LANE_F] % 16 = 0
    /\ status = "ok"
    /\ executed = << [mcode |-> "Nop", ir |-> Opcode_NOP, origin |-> Opcode_NOP] >>
    /\ pc = last.pc + 1

\* C7: an Illegal micro-op is never treated as a no-op: the call that pops one
\* ends in the fatal outcome, and executes no later micro-op of the queue.
C7_IllegalIsFatal ==
    \A i \in 1 .. Len(executed) :
        executed[i].mcode = "Illegal" => (status = "illegal" /\ i = Len(executed))

\* exec_instruction popped an Illegal micro-op with a micro-op queued behind it.
C7_Witness ==
    /\ last.op = "exec_instruction"
    /\ status = "illegal"
    /\ executed # << >>
    /\ executed[Len(executed)].mcode = "Illegal"
    /\ mcode_queue # << >>

\* C8: IR names the instruction being executed: whenever a micro-op is executed
\* IR is the opcode whose decode queued it, and the diagnostic of an Illegal
\* halt carries the value and name of the byte that decoded to that Illegal.
C8_IrNamesExecuting ==
    /\ \A i \in 1 .. Len(executed) : executed[i].ir = executed[i].origin
    /\ status = "illegal" =>
          diag = << Opcode_as_u8(executed[Len(executed)].origin),
                    executed[Len(executed)].origin >>

\* The concatenation of the decode sequences of opcodes ops.
RECURSIVE Decoded(_)
Decoded(ops) ==
    IF ops = << >> THEN << >> ELSE Opcode_mcode(Head(ops)) \o Decoded(Tail(ops))

\* The run so far consists of exec_m_cycle calls only.
OnlyMCycles == \A i \in 1 .. Len(history) : history[i].op = "exec_m_cycle"

\* The first n fetched opcodes decode to no Illegal micro-op.
NonIllegal(n) ==
    \A i \in 1 .. Len(Decoded(SubSeq(fetched, 1, n))) :
        Decoded(SubSeq(fetched, 1, n))[i] # "Illegal"

\* C9 for the run so far, given that it is a run of exec_m_cycle calls.
C9_Body ==
    /\ Len(executed) = Len(history)
    /\ \A n \in 1 .. Len(fetched) :
          LET seq == Decoded(SubSeq(fetched, 1, n))
          IN (NonIllegal(n) /\ Len(history) >= Len(seq)) =>
                [i \in 1 .. Len(seq) |-> executed[i].mcode] = seq
    /\ (\A i \in 1 .. Len(fetched) : fetched[i] = Opcode_NOP) =>
          /\ Len(fetched) = Len(history)
          /\ history # << >> => pc = (history[1].pc + Len(history)) % ADDRESS_SPACE

\* C9: the fetch/execute overlap costs no extra cycle: in a run of exec_m_cycle
\* calls from an empty queue every call executes exactly one micro-op, so n
\* non-illegal instructions of k1..kn micro-ops are done after exactly
\* k1+...+kn calls, and n NOPs take n calls and advance PC by n.
C9_NoExtraCycle == OnlyMCycles => C9_Body

\* C9 holds of every run that the overflow check of `self.pc += 1` does not abort.
C9_UnlessOverflowPanic == (OnlyMCycles /\ status # "overflow") => C9_Body

\* C10: bus read-after-write over the whole address space: after write(a, v),
\* read(a) returns v and read(b) is unchanged for every address b # a; the
\* low-byte/high-byte split gives every address one page and one offset of its
\* own, so no two addresses alias; read returns a byte for every address and
\* does not change the bus.
C10_ReadAfterWrite ==
    /\ bus_op.op = "write" =>
          \A b \in 0 .. U16_MAX :
              LET le == to_le_bytes(b)
              IN /\ le[1] \in 0 .. PAGE_SIZE - 1
                 /\ le[2] \in 0 .. PAGE_COUNT - 1
                 /\ from_le_bytes(le[1], le[2]) = b
                 /\ Bus_read(bus, b) =
                       IF b = bus_op.addr THEN bus_op.value
                       ELSE Bus_read(bus_op.before, b)
    /\ bus_op.op = "read" =>
          /\ bus = bus_op.before
          /\ bus_op.value \in Byte
          /\ \A b \in 0 .. U16_MAX : Bus_read(bus, b) \in Byte

\* A write at 0xFFFF changed the byte read there, with 0x00FF written before.
C10_Witness ==
    /\ bus_op.op = "write"
    /\ bus_op.addr = U16_MAX
    /\ Bus_read(bus_op.before, U16_MAX) # bus_op.value
    /\ Bus_read(bus, U16_MAX) = bus_op.value
    /\ Bus_read(bus, 255) = 165

\* What C11 and C12 say of the 16-bit access at address a that was made last.
LittleEndianAt(a) ==
    LET next == (a + 1) % ADDRESS_SPACE
        w == bus_op.value
    IN /\ status = "ok"
       /\ bus_op.op = "write16" =>
             /\ \A b \in 0 .. U16_MAX :
                   Bus_read(bus, b) =
                       IF b = a THEN w % 256
                       ELSE IF b = next THEN w \div 256
                       ELSE Bus_read(bus_op.before, b)
             /\ Bus_read16(bus, a) = [value |-> w, status |-> "ok"]
       /\ bus_op.op = "read16" =>
             /\ bus = bus_op.before
             /\ w = Bus_read(bus, a) + 256 * Bus_read(bus, next)

\* C11: 16-bit bus access is little-endian for every address a < 0xFFFF, also
\* for a = 0x??FF where the high byte is in the next page: write16(a, w) stores
\* the low byte of w at a and the high byte at a+1 and changes no other
\* address; read16(a) returns read(a) + 256*read(a+1); read16 after write16 at
\* the same address returns w.
C11_LittleEndian ==
    (bus_op.op \in { "write16", "read16" } /\ bus_op.addr < U16_MAX)
        => LittleEndianAt(bus_op.addr)

\* write16(0x00FF, 0x1234) stored 0x34 at 0x00FF and 0x12 at 0x0100, in
\* different pages, and changed both.
C11_Witness ==
    /\ bus_op.op = "write16"
    /\ bus_op.addr = 255
    /\ bus_op.value = 4660
    /\ Bus_read(bus_op.before, 255) # 52
    /\ Bus_read(bus_op.before, 256) # 18
    /\ bus[0][255] = 52
    /\ bus[1][0] = 18

\* C12: 16-bit access wraps at the top of the address space: write16(0xFFFF, w)
\* completes without error, storing the low byte at 0xFFFF and the high byte
\* at 0x0000; read16(0xFFFF) completes without error and returns
\* read(0xFFFF) + 256*read(0x0000); the round trip returns w.
C12_WrapsAtTop ==
    (bus_op.op \in { "write16", "read16" } /\ bus_op.addr = U16_MAX)
        => LittleEndianAt(U16_MAX)

\* Without overflow checks the access at 0xFFFF does wrap as C12 says.
C12_WrapsWithoutChecks ==
    (bus_op.op \in { "write16", "read16" } /\ bus_op.addr = U16_MAX
        /\ ~overflow_checks)
        => LittleEndianAt(U16_MAX)

\* With overflow checks the access at 0xFFFF panics on `addr + 1`: read16
\* before reading anything, write16 with the low byte stored and the high
\* byte not.
C12_PanicsWithChecks ==
    (bus_op.op \in { "write16", "read16" } /\ bus_op.addr = U16_MAX
        /\ overflow_checks)
        => /\ status = "overflow"
           /\ bus_op.op = "read16" => bus = bus_op.before
           /\ bus_op.op = "write16" =>
                 bus = Bus_write(bus_op.before, U16_MAX, bus_op.value % 256)

\* The 8-bit registers as their getters return them.
Bytes8(r) ==
    [a |-> reg_a(r), f |-> reg_f(r), b |-> reg_b(r), c |-> reg_c(r),
     d |-> reg_d(r), e |-> reg_e(r), h |-> reg_h(r), l |-> reg_l(r)]

\* The 16-bit registers as their getters return them.
Words16(r) == [af |-> reg_af(r), bc |-> reg_bc(r), de |-> reg_de(r), hl |-> reg_hl(r)]

\* The flags as their getters return them.
Flags(r) == [c |-> c_flag(r), h |-> h_flag(r), n |-> n_flag(r), z |-> z_flag(r)]

\* The halves of each 16-bit register, high half first, and the pair each
\* 8-bit register is half of.
Halves == [af |-> << "a", "f" >>, bc |-> << "b", "c" >>,
           de |-> << "d", "e" >>, hl |-> << "h", "l" >>]
PairOf == [a |-> "af", f |-> "af", b |-> "bc", c |-> "bc",
           d |-> "de", e |-> "de", h |-> "hl", l |-> "hl"]

\* The position in F of each flag.
FlagBit == [c |-> 4, h |-> 5, n |-> 6, z |-> 7]

\* The register a setter is named after: "set_bc" -> "bc", "set_c_flag" -> "c".
Target ==
    [set_a |-> "a", set_f |-> "f", set_b |-> "b", set_c |-> "c", set_d |-> "d",
     set_e |-> "e", set_h |-> "h", set_l |-> "l", set_af |-> "af", set_bc |-> "bc",
     set_de |-> "de", set_hl |-> "hl", set_c_flag |-> "c", set_h_flag |-> "h",
     set_n_flag |-> "n", set_z_flag |-> "z"]

\* C13: register aliasing.  After any sequence of setters bc() = 256*b() + c(),
\* de() = 256*d() + e(), hl() = 256*h() + l() and af() = 256*a() + f(); the flags
\* c/h/n/z are bits 4/5/6/7 of F; a write to an 8-bit register changes only its
\* own byte of its pair; a write to a 16-bit register sets both halves (the F
\* half as F reads, bits 4..7); every write leaves the other pairs unchanged.
C13_Aliasing ==
    LET now == Bytes8(registers)
        was == Bytes8(reg_op.before)
        words == Words16(registers)
        flags == Flags(registers)
        t == Target[reg_op.op]
        v == reg_op.value
    IN /\ \A p \in DOMAIN Halves :
              words[p] = 256 * now[Halves[p][1]] + now[Halves[p][2]]
       /\ \A x \in DOMAIN FlagBit : flags[x] = bit(now.f, FlagBit[x])
       /\ reg_op.op \in Setters8 =>
              /\ now[t] = (IF t = "f" THEN and_F0(v) ELSE v)
              /\ \A x \in DOMAIN now \ { t } : now[x] = was[x]
              /\ \A p \in DOMAIN Halves \ { PairOf[t] } :
                     words[p] = Words16(reg_op.before)[p]
       /\ reg_op.op \in Setters16 =>
              /\ now[Halves[t][1]] = v \div 256
              /\ now[Halves[t][2]] = (IF t = "af" THEN and_F0(v % 256) ELSE v % 256)
              /\ words[t] = (IF t = "af" THEN and_FFF0(v) ELSE v)
              /\ \A p \in DOMAIN Halves \ { t } :
                     /\ words[p] = Words16(reg_op.before)[p]
                     /\ \A i \in 1 .. 2 : now[Halves[p][i]] = was[Halves[p][i]]
       /\ reg_op.op \in SettersFlag =>
              /\ flags[t] = v
              /\ \A x \in DOMAIN flags \ { t } : flags[x] = Flags(reg_op.before)[x]
              /\ \A x \in DOMAIN now \ { "f" } : now[x] = was[x]
              /\ \A p \in DOMAIN Halves \ { "af" } :
                     words[p] = Words16(reg_op.before)[p]

\* set_bc(0xA5C3) and then set_b(0x5F) on the DMG register file: BC reads
\* 0x5FC3, C kept its byte, the other pairs are as constructed.
C13_Witness ==
    /\ reg_op.op = "set_b"
    /\ reg_op.value = 95
    /\ reg_bc(reg_op.before) = 42435
    /\ reg_bc(registers) = 24515
    /\ reg_c(registers) = 195
    /\ reg_af(registers) = 432
    /\ reg_de(registers) = 216
    /\ reg_hl(registers) = 333

\* Bits 4..7 of byte x.
HighNibble(x) == [n \in 4 .. 7 |-> bit(x, n)]

\* C14: the low nibble of F is always 0.  After any sequence of set_f, set_af,
\* flag setters and other register writes, f() and af() have bits 0..3 equal
\* to 0, while bits 4..7 of the F value written last are preserved: set_f(v)
\* and set_af(w) leave bits 4..7 of v and of the low byte of w in F, a flag
\* setter changes its own bit of them, and no other write touches them.
C14_LowNibbleZero ==
    LET f == reg_f(registers)
        v == reg_op.value
    IN /\ f % 16 = 0
       /\ reg_af(registers) % 16 = 0
       /\ reg_op.op = "set_f" => HighNibble(f) = HighNibble(v)
       /\ reg_op.op = "set_af" => HighNibble(f) = HighNibble(v % 256)
       /\ reg_op.op \in SettersFlag =>
              HighNibble(f) = [HighNibble(reg_f(reg_op.before))
                                   EXCEPT ![FlagBit[Target[reg_op.op]]] = v]
       /\ reg_op.op \in (Setters8 \cup Setters16) \ { "set_f", "set_af" } =>
              f = reg_f(reg_op.before)

\* set_f(0x5F) and then set_a(0x5F): the raw F bits are 0x5F, f() reads 0x50
\* and af() reads 0x5F50.
C14_Witness ==
    /\ reg_op.op = "set_a"
    /\ registers[LANE_F] = 95
    /\ reg_f(registers) = 80
    /\ reg_af(registers) = 24400

\* The literals of the revision constructors as their four 16-bit groups
\* 0xHHLL, 0xDDEE, 0xBBCC, 0xAAFF (SGB2: the SGB literal with A = 0xFF).
Literal ==
    [initial_dmg  |-> [hl |-> 333,   de |-> 216, bc |-> 19,  af |-> 432],
     initial_mgb  |-> [hl |-> 333,   de |-> 216, bc |-> 19,  af |-> 65456],
     initial_sgb  |-> [hl |-> 49248, de |-> 0,   bc |-> 20,  af |-> 256],
     initial_sgb2 |-> [hl |-> 49248, de |-> 0,   bc |-> 20,  af |-> 65280],
     initial_cgb  |-> [hl |-> 124,   de |-> 8,   bc |-> 0,   af |-> 4480],
     initial_agb  |-> [hl |-> 124,   de |-> 8,   bc |-> 256, af |-> 4352],
     initial_ags  |-> [hl |-> 124,   de |-> 8,   bc |-> 256, af |-> 4352]]

\* C15: initial state fidelity.  Sm83::new_dmg yields A=0x01, F=0xB0, B=0x00,
\* C=0x13, D=0x00, E=0xD8, H=0x01, L=0x4D, SP=0xFFFE, PC=0x0100, IR=NOP and an
\* empty queue; the constructor of each other revision (MGB, SGB, SGB2, CGB,
\* AGB, AGS) yields exactly the register bytes of its literal, with the low
\* nibble of F equal to 0.
C15_InitialState ==
    reg_op.calls = 0 =>
        LET lit == Literal[reg_op.op]
            now == Bytes8(registers)
        IN /\ reg_op.op = "initial_dmg" =>
                  /\ now = [a |-> 1, f |-> 176, b |-> 0, c |-> 19,
                            d |-> 0, e |-> 216, h |-> 1, l |-> 77]
                  /\ sp = 65534
                  /\ pc = 256
                  /\ ir = Opcode_NOP
                  /\ Opcode_as_u8(ir) = 0
                  /\ mcode_queue = << >>
           /\ now.h = lit.hl \div 256 /\ now.l = lit.hl % 256
           /\ now.d = lit.de \div 256 /\ now.e = lit.de % 256
           /\ now.b = lit.bc \div 256 /\ now.c = lit.bc % 256
           /\ now.a = lit.af \div 256 /\ now.f = lit.af % 256
           /\ Words16(registers) = lit
           /\ registers[LANE_F] % 16 = 0

\* The machine of Sm83::new_dmg, before any call on it: the raw register
\* value is the DMG literal, read back byte by byte.
C15_Witness ==
    /\ reg_op.calls = 0
    /\ reg_op.op = "initial_dmg"
    /\ registers = initial_dmg
    /\ reg_af(registers) = 432
    /\ pc = AFTER_BOOT_PC
    /\ history = << >>

\* C16: a loaded ROM runs to its end: from DotMatrix::new_dmg followed by
\* load(rom), for a ROM whose final instruction is the self-loop word 0xFE18,
\* calling exec_instruction repeatedly reaches, without a fatal error, a state
\* in which bus.read16(cpu.pc) = 0xFE18.  Its safety half: until that state is
\* reached, no call ends in a fatal error.
C16_RomRunsToEnd ==
    (cartridge.some /\ ~SelfLoopRead) => status = "ok"

\* The loaded ROM ends with the self-loop word, and its bytes never reach the
\* bus: the bus stays as Bus::new_dmg made it, all 0xFF, so read16 returns
\* 0xFFFF at every PC and the loop of the ROM test is never left.
C16_RomNeverOnBus ==
    cartridge.some =>
        /\ LET n == Len(cartridge.rom)
           IN from_le_bytes(Cartridge_read(cartridge, n - 2),
                            Cartridge_read(cartridge, n - 1)) = SELF_LOOP_ADDR
        /\ bus = Bus_new_dmg
        /\ Bus_read(bus, pc) = 255
        /\ ~SelfLoopRead
        /\ bus_op.op = "read16" => bus_op.value = U16_MAX

\* The first turn of the loop after load ended in the Illegal panic for the
\* byte 0xFF read at 0x0100.
C16_FirstTurnPanics ==
    (cartridge.some /\ history # << >>) =>
        /\ Len(history) = 1
        /\ status = "illegal"
        /\ diag[1] = 255
        /\ pc = AFTER_BOOT_PC + 1

\* C17: exec_m_cycle and exec_instruction always terminate.  A call of
\* exec_instruction returns, or halts on Illegal, after executing at most the
\* micro-ops queued on entry plus those of the one opcode it fetches, because
\* executing a micro-op never appends to the queue; a call of exec_m_cycle
\* executes at most one micro-op.
C17_BoundedWork ==
    [][ /\ \A mcode \in MCode :
               exec_mcode(Machine, mcode).mcode_queue = mcode_queue
        /\ Step("exec_instruction") =>
               /\ FetchesNow <= 1
               /\ Len(ExecutedNow) <=
                      Len(mcode_queue)
                        + (IF FetchesNow = 1 THEN Len(Opcode_mcode(ir')) ELSE 0)
               /\ Len(mcode_queue') <= Len(mcode_queue) + Len(Opcode_mcode(ir'))
               /\ status' \in { "ok", "illegal", "overflow" }
        /\ Step("exec_m_cycle") =>
               /\ FetchesNow <= 1
               /\ Len(ExecutedNow) <= 1
               /\ status' \in { "ok", "illegal", "overflow" }
      ]_vars

\* Two fetches queued three micro-ops, and one call of exec_instruction
\* executed all three and returned with the queue empty.
C17_Witness ==
    /\ Len(history) = 3
    /\ history[1].op = "fetch"
    /\ history[2].op = "fetch"
    /\ history[3].op = "exec_instruction"
    /\ history[3].n = 3
    /\ Len(executed) = 3
    /\ mcode_queue = << >>
    /\ status = "ok"

\* What C18 says of a call of fetch about the decoding of the byte at PC.
C18_Body ==
    LET byte == Bus_read(bus, pc)
        op == Opcode_from(byte)
        seq == Opcode_mcode(op)
    IN /\ byte \in Byte
       /\ Opcode_as_u8(op) = byte
       /\ Len(seq) >= 1
       /\ \A i \in 1 .. Len(seq) : seq[i] \in MCode
       /\ seq = << "Illegal" >> \/ \A i \in 1 .. Len(seq) : seq[i] # "Illegal"
       /\ ir' = op
       /\ mcode_queue' = mcode_queue \o seq
       /\ Len(mcode_queue') > Len(mcode_queue)

\* C18: decode completeness.  For every one of the 256 byte values fetch can
\* read from the bus, decoding yields an opcode identifier whose numeric value
\* is that byte and whose micro-op sequence is a non-empty sequence or the
\* Illegal marker; there is no byte for which fetch fails or appends nothing.
C18_DecodeComplete ==
    [][ Step("fetch") => (C18_Body /\ status' = "ok") ]_vars

\* C18 holds of every call of fetch that the overflow check of `self.pc += 1`
\* does not abort.
C18_UnlessOverflowPanic ==
    [][ (Step("fetch") /\ status' # "overflow")
            => (C18_Body /\ status' = "ok") ]_vars

\* fetch fails in one way only: the overflow check at PC = 0xFFFF, for every
\* byte alike, after the byte is decoded and its sequence appended.
C18_FailsOnlyAtTop ==
    [][ Step("fetch") =>
          /\ C18_Body
          /\ status' = (IF pc = U16_MAX /\ overflow_checks THEN "overflow" ELSE "ok")
      ]_vars

\* The records are exactly 256 and carry 256 unique byte values.
UniqueBytes256(records) ==
    /\ Len(records) = 256
    /\ \A i, j \in 1 .. Len(records) :
           records[i].opcode = records[j].opcode => i = j

\* The generator failed and wrote no file.
FailedBeforeWriting == generator.outcome = "failed" /\ generator.file = << >>

\* C19 as stated: the build-time generator fails, before writing the
\* generated opcode file, for every opcode specification that does not consist
\* of exactly 256 records carrying 256 unique opcode byte values (wrong count
\* or a duplicated byte value).
C19_RejectsCountOrDuplicate ==
    (generator.outcome # "none" /\ ~UniqueBytes256(generator.input))
        => FailedBeforeWriting

\* C19 amended: the generator fails, before writing the generated opcode file,
\* for every opcode specification that does not consist of exactly 256 records
\* (and for one with a record without mnemonic).  A duplicated byte value
\* among exactly 256 records is not rejected: the generator writes the file,
\* with the repeated discriminant and the repeated match pattern in it.
C19_RejectsWrongCountOnly ==
    LET input == generator.input
        complete == \A i \in 1 .. Len(input) : input[i].mnemonic # << >>
    IN generator.outcome # "none" =>
          /\ Len(input) # 256 => FailedBeforeWriting
          /\ (Len(input) = 256 /\ ~complete) => FailedBeforeWriting
          /\ (Len(input) = 256 /\ complete) =>
                /\ generator.outcome = "written"
                /\ Len(generator.file) = 3
                /\ \A i \in 1 .. 256 :
                      /\ generator.file[1][i].discriminant = input[i].opcode
                      /\ generator.file[1][i].id = input[i].id
                      /\ generator.file[2][i].pattern = input[i].opcode
                      /\ generator.file[2][i].id = input[i].id

\* The generator was given 256 records in which byte 0x00 occurs twice and
\* byte 0x01 not at all, and wrote the file with both variants numbered 0.
C19_Witness ==
    /\ generator.outcome = "written"
    /\ Len(generator.input) = 256
    /\ ~UniqueBytes256(generator.input)
    /\ generator.file[1][1].discriminant = 0
    /\ generator.file[1][2].discriminant = 0
    /\ generator.file[1][1].id # generator.file[1][2].id

\* For each micro-op of Decoded(ops), the opcode whose decode sequence it is in.
RECURSIVE DecodedFrom(_)
DecodedFrom(ops) ==
    IF ops = << >> THEN << >>
    ELSE [i \in 1 .. Len(Opcode_mcode(Head(ops))) |-> Head(ops)]
             \o DecodedFrom(Tail(ops))

\* C20: micro-ops are executed in FIFO order.  Over any sequence of fetch,
\* exec_m_cycle and exec_instruction calls, the sequence of executed micro-ops
\* is a prefix of the concatenation, in fetch order, of the decode sequences of
\* the fetched opcodes, each micro-op the one its own opcode put there; no
\* queued micro-op is skipped, duplicated or reordered: what is not executed
\* yet is the rest of that concatenation, still queued in that order.
C20_FifoOrder ==
    LET all == Decoded(fetched)
        from == DecodedFrom(fetched)
        done == Len(executed)
    IN /\ done <= Len(all)
       /\ \A i \in 1 .. done :
              /\ executed[i].mcode = all[i]
              /\ executed[i].origin = from[i]
       /\ mcode_queue = SubSeq(all, done + 1, Len(all))
       /\ origin = SubSeq(from, done + 1, Len(from))

\* Three opcodes were fetched; the micro-ops of the first and then of the
\* second have been executed, those of the third are queued.
C20_Witness ==
    /\ Len(fetched) = 3
    /\ Len(executed) = 3
    /\ executed[1].origin = fetched[1]
    /\ executed[2].origin = fetched[1]
    /\ executed[3].origin = fetched[2]
    /\ fetched[1] # fetched[2]
    /\ Len(mcode_queue) = 3
    /\ \A i \in 1 .. 3 : origin[i] = fetched[3]
    /\ status = "ok"

\* What C21 says of one call: only PC, IR and the queue may change, and PC
\* moves by the number of fetches the call performed (in u16 arithmetic).
C21_Body ==
    /\ sp' = sp
    /\ registers' = registers
    /\ bus' = bus
    /\ pc' = (pc + FetchesNow) % ADDRESS_SPACE

\* C21: in the current micro-op catalog (Nop, Illegal) the CPU never mutates
\* anything but PC, IR and the queue: over any sequence of fetch, exec_m_cycle
\* and exec_instruction calls, SP, the 64-bit register file and every bus byte
\* keep their initial values, and PC equals the initial PC plus the number of
\* fetches performed.
C21_FrameAndPc ==
    [][ (Step("fetch") \/ Step("exec_m_cycle") \/ Step("exec_instruction"))
            => C21_Body ]_vars

\* C21 holds of every call that the overflow check of `self.pc += 1` does not abort.
C21_UnlessOverflowPanic ==
    [][ ((Step("fetch") \/ Step("exec_m_cycle") \/ Step("exec_instruction"))
            /\ status' # "overflow") => C21_Body ]_vars

\* A call aborted by the overflow check has fetched (IR, the queue and the
\* fetch count moved) and left PC at 0xFFFF.
C21_PanickedFetchKeepsPc ==
    status = "overflow" =>
        /\ pc = U16_MAX
        /\ Len(fetched) >= 1
        /\ ir = fetched[Len(fetched)]
        /\ ir = Opcode_from(Bus_read(bus, pc))

\* q is a suffix, possibly empty, possibly the whole, of seq.
IsSuffix(q, seq) ==
    /\ Len(q) <= Len(seq)
    /\ q = SubSeq(seq, Len(seq) - Len(q) + 1, Len(seq))

\* What C22 says of the state after a call, given that the run is of
\* exec_m_cycle calls: the queue is a suffix of the decode sequence of the
\* opcode in IR, pushed by the fetch of that opcode, so not longer than that
\* sequence and so than the longest sequence of the table.
C22_Body ==
    /\ IsSuffix(mcode_queue, Opcode_mcode(ir))
    /\ \A i \in 1 .. Len(origin) : origin[i] = ir
    /\ Len(mcode_queue) <= Len(Opcode_mcode(ir))

\* C22: in every run that starts with an empty queue and consists only of
\* exec_m_cycle calls, with a decode table of non-empty sequences, after each
\* call the queue holds micro-ops of at most one instruction, namely a
\* (possibly empty) suffix of the decode sequence of the opcode currently in
\* IR, and its length is at most the longest decode sequence.
C22_QueueOfOneInstruction == OnlyMCycles => C22_Body

\* C22 holds after every call that the overflow check of `self.pc += 1` does
\* not abort.
C22_UnlessOverflowPanic == (OnlyMCycles /\ status # "overflow") => C22_Body

\* Every accessor returns the same from r1 as from r2.
SameReadings(r1, r2) ==
    /\ Bytes8(r1) = Bytes8(r2)
    /\ Words16(r1) = Words16(r2)
    /\ Flags(r1) = Flags(r2)

\* Register files to compare the present one with: the one before the last
\* setter call, the constructors' ones, and the present one after one more
\* set_f or set_af that writes the flags F reads now with any low nibble.
Others ==
    { reg_op.before }
    \cup { Revisions[ctor] : ctor \in DOMAIN Revisions }
    \cup { set_f(registers, reg_f(registers) + k) : k \in 0 .. 15 }
    \cup { set_af(registers, reg_af(registers) + k) : k \in 0 .. 15 }

\* C23: equality of register files agrees with what can be read from them:
\* two Sm83Registers values (and two Sm83 states) that return the same values
\* from every accessor a, f, b, c, d, e, h, l, af, bc, de, hl and the four
\* flags compare equal with ==, for every sequence of setter calls, set_f and
\* set_af with non-zero low nibbles included.
C23_EqualityAgreesWithReadings ==
    \A other \in Others :
        SameReadings(registers, other) =>
            /\ Sm83Registers_eq(registers, other)
            /\ Sm83_eq(Machine, [Machine EXCEPT !.registers = other])

\* C23 holds of register files whose raw F bits 0..3 are 0, and == never
\* holds of two register files that read differently.
C23_AgreesOnClearLowNibbles ==
    \A other \in Others :
        /\ (SameReadings(registers, other)
              /\ registers[LANE_F] % 16 = 0 /\ other[LANE_F] % 16 = 0)
               => Sm83Registers_eq(registers, other)
        /\ Sm83Registers_eq(registers, other) => SameReadings(registers, other)

\* Two register files that read the same and are not ==: they differ in the
\* raw bits 0..3 of F only, which set_f or set_af stored and no accessor returns.
C23_DifferOnlyInLowNibble ==
    \A other \in Others :
        (SameReadings(registers, other) /\ ~Sm83Registers_eq(registers, other))
            => /\ \A lane \in 2 .. 8 : registers[lane] = other[lane]
               /\ registers[LANE_F] \div 16 = other[LANE_F] \div 16
               /\ registers[LANE_F] % 16 # other[LANE_F] % 16

====
